---- MODULE Spec2Model ----
(***************************************************************************)
(* Model of zipline/utils/preprocess.py: signature extraction              *)
(* (getargspec with its Cython docstring fallback) and the                 *)
(* signature-preserving wrapper built by preprocess().                     *)
(*                                                                         *)
(* Conventions.  A Python str is a sequence of one-character strings.      *)
(* Python's None for a name (varargs, keywords) and for ArgSpec.defaults   *)
(* is the empty sequence: the code only tests those for truthiness         *)
(* (lines 192, 202, 206) and a real name is never empty.  Exceptions are   *)
(* records [type, msg, first, second].  The interpreter modelled is the    *)
(* one the file was written for (CPython 2.7 / 3.3-3.4, see the six.PY3    *)
(* switch at line 17): re.split ignores empty matches, and a trailing      *)
(* comma after *args is a syntax error.                                    *)
(***************************************************************************)
EXTENDS Integers, Sequences, FiniteSets, TLC

VARIABLES f, processors, pc, wrapper, error, argspec, call, locals, ip, trace, result

vars == <<f, processors, pc, wrapper, error, argspec, call, locals, ip, trace, result>>

-----------------------------------------------------------------------------
(* Bounds of the model *)

\* longest argument list of a docstring signature line
MaxEntries == 2
\* longest parameter list of a function, and most positional arguments of a call
MaxArgs == 2

-----------------------------------------------------------------------------
(* Python values *)

\* Python's None as an argument or default value
PyNone == -1
\* the sentinel object() of line 36
NO_DEFAULT == -2

NoName == <<>>

Letters == {"a", "b", "c", "d", "f", "g", "l", "m", "o", "t", "x", "y", "_"}
Digits == {"1"}
\* the class [\w_] of line 37
WordChars == Letters \cup Digits

NoError == [type |-> "", msg |-> "", first |-> "", second |-> ""]
Raise(type, msg) == [type |-> type, msg |-> msg, first |-> "", second |-> ""]

ArgSpec(args, varargs, keywords, defaults) ==
  [args |-> args, varargs |-> varargs, keywords |-> keywords, defaults |-> defaults]
NoArgSpec == ArgSpec(<<>>, NoName, NoName, <<>>)

Returned(spec) == [ok |-> TRUE, spec |-> spec, err |-> NoError]
Raised(err) == [ok |-> FALSE, spec |-> NoArgSpec, err |-> err]

SetMin(S) == CHOOSE x \in S : \A y \in S : x <= y
SetMax(S) == CHOOSE x \in S : \A y \in S : y <= x

-----------------------------------------------------------------------------
(* str methods and the regular expressions the code uses *)

\* sub in s
Contains(sub, s) ==
  \E i \in 0..(Len(s) - Len(sub)) : SubSeq(s, i + 1, i + Len(sub)) = sub

RECURSIVE SplitFrom(_, _, _, _)
SplitFrom(s, sep, i, cur) ==
  IF i > Len(s) THEN <<cur>>
  ELSE IF s[i] = sep THEN <<cur>> \o SplitFrom(s, sep, i + 1, <<>>)
  ELSE SplitFrom(s, sep, i + 1, Append(cur, s[i]))

\* s.split(sep) for a one-character separator
Split(s, sep) == SplitFrom(s, sep, 1, <<>>)

\* s.splitlines(): like split on the newline, without a final empty line
SplitLines(s) ==
  LET parts == Split(s, "\n")
  IN IF parts[Len(parts)] = <<>> THEN SubSeq(parts, 1, Len(parts) - 1) ELSE parts

\* s.strip(' ')
Strip(s) ==
  LET keep == {i \in DOMAIN s : s[i] # " "}
  IN IF keep = {} THEN <<>> ELSE SubSeq(s, SetMin(keep), SetMax(keep))

RECURSIVE ReSplitFrom(_, _, _)
ReSplitFrom(s, i, cur) ==
  IF i > Len(s) THEN <<cur>>
  ELSE IF s[i] = " "
    THEN LET rest == {j \in i..Len(s) : s[j] # " "}
             next == IF rest = {} THEN Len(s) + 1 ELSE SetMin(rest)
         IN <<cur>> \o ReSplitFrom(s, next, <<>>)
    ELSE ReSplitFrom(s, i + 1, Append(cur, s[i]))

\* re.split(' *', s): split at every run of spaces; empty matches do not split
ReSplitSpaces(s) == ReSplitFrom(s, 1, <<>>)

RECURSIVE Join(_, _)
\* sep.join(parts)
Join(parts, sep) ==
  IF parts = <<>> THEN <<>>
  ELSE IF Len(parts) = 1 THEN parts[1]
  ELSE parts[1] \o sep \o Join(Tail(parts), sep)

\* length of the longest prefix of s made of word characters
WordPrefix(s) ==
  LET stop == {i \in DOMAIN s : s[i] \notin WordChars}
  IN IF stop = {} THEN Len(s) ELSE SetMin(stop) - 1

\* CYTHON_SIGNATURE_PARSER.match(line) is not None
SignatureMatches(line) ==
  LET k == WordPrefix(line)
  IN /\ k >= 1
     /\ Len(line) >= k + 2
     /\ line[k + 1] = "("
     /\ line[Len(line)] = ")"

\* m.groups() of CYTHON_SIGNATURE_PARSER
SignatureGroups(line) ==
  LET k == WordPrefix(line)
  IN [funcname |-> SubSeq(line, 1, k), cy_sig |-> SubSeq(line, k + 2, Len(line) - 1)]

-----------------------------------------------------------------------------
(* extract_argnames *)

\* a slip of line 60: sub_pieces[0], the type where there is one
FirstPiece(sub_pieces) == sub_pieces[1]

\* sub_pieces[-1]
LastPiece(sub_pieces) == sub_pieces[Len(sub_pieces)]

RECURSIVE ArgnamesFrom(_, _, _)
ArgnamesFrom(pieces, i, argnames) ==
  IF i > Len(pieces) THEN [ok |-> TRUE, argnames |-> argnames, err |-> NoError]
  ELSE LET sub_pieces == ReSplitSpaces(Strip(pieces[i]))
       IN IF Len(sub_pieces) > 2
            THEN [ok |-> FALSE, argnames |-> <<>>,
                  err |-> Raise("SyntaxError", "Couldn't parse argument name")]
            ELSE ArgnamesFrom(pieces, i + 1, Append(argnames, LastPiece(sub_pieces)))

\* extract_argnames without the check of lines 49-52
extract_argnames_unchecked(sig) == ArgnamesFrom(Split(sig, ","), 1, <<>>)

extract_argnames(sig) ==
  IF "=" \in {sig[i] : i \in DOMAIN sig}
    THEN [ok |-> FALSE, argnames |-> <<>>,
          err |-> Raise("SyntaxError", "Can't parse signatures containing default values")]
    ELSE ArgnamesFrom(Split(sig, ","), 1, <<>>)

-----------------------------------------------------------------------------
(* exec of "def funcname(signature): pass" followed by inspect.getargspec *)

\* a Python identifier (the letters of the model spell no keyword)
IsIdentifier(s) ==
  /\ s # <<>>
  /\ \A i \in DOMAIN s : s[i] \in WordChars
  /\ s[1] \notin Digits

IsStarred(s) == Len(s) >= 2 /\ s[1] = "*" /\ IsIdentifier(Tail(s))
IsDoubleStarred(s) == Len(s) >= 3 /\ s[1] = "*" /\ s[2] = "*" /\ IsIdentifier(Tail(Tail(s)))

\* the parameter a written item declares: its name without the stars
ItemName(s) ==
  IF IsDoubleStarred(s) THEN Tail(Tail(s)) ELSE IF IsStarred(s) THEN Tail(s) ELSE s

\* The parameter list grammar: plain names, then at most one *name, then at
\* most one **name; one trailing comma is allowed after a plain name only;
\* no name is declared twice.  A plain name after *name is a syntax error
\* on Python 2 and makes getargspec raise ValueError on Python 3.
DefParameters(signature) ==
  LET raw == [i \in DOMAIN Split(signature, ",") |-> Strip(Split(signature, ",")[i])]
      items == IF raw = <<<<>>>> THEN <<>>
               ELSE IF Len(raw) >= 2 /\ raw[Len(raw)] = <<>> /\ IsIdentifier(raw[Len(raw) - 1])
                 THEN SubSeq(raw, 1, Len(raw) - 1)
                 ELSE raw
      n == Len(items)
      plain == {i \in 1..n : IsIdentifier(items[i])}
      star == {i \in 1..n : IsStarred(items[i])}
      dstar == {i \in 1..n : IsDoubleStarred(items[i])}
      wellformed ==
        /\ plain \cup star \cup dstar = 1..n
        /\ Cardinality(star) <= 1
        /\ Cardinality(dstar) <= 1
        /\ \A i \in plain : \A j \in star \cup dstar : i < j
        /\ \A i \in star : \A j \in dstar : i < j
        /\ \A i, j \in 1..n : i # j => ItemName(items[i]) # ItemName(items[j])
  IN IF wellformed
       THEN Returned(ArgSpec(
              [i \in 1..Cardinality(plain) |-> items[i]],
              IF star = {} THEN NoName ELSE Tail(items[CHOOSE i \in star : TRUE]),
              IF dstar = {} THEN NoName ELSE Tail(Tail(items[CHOOSE i \in dstar : TRUE])),
              <<>>))
       ELSE Raised(Raise("SyntaxError", "invalid syntax"))

ExecDef(funcname, signature) ==
  IF IsIdentifier(funcname) THEN DefParameters(signature)
  ELSE Raised(Raise("SyntaxError", "invalid syntax"))

parse_argspec_from_cython_embedsignature_line(signature_line) ==
  IF ~SignatureMatches(signature_line)
    THEN Raised(Raise("SyntaxError", "Can't parse signature line"))
    ELSE LET m == SignatureGroups(signature_line)
             parsed == extract_argnames(m.cy_sig)
         IN IF ~parsed.ok THEN Raised(parsed.err)
            ELSE ExecDef(m.funcname, Join(parsed.argnames, <<",", " ">>))

-----------------------------------------------------------------------------
(* getargspec *)

\* fail(second_error): the ValueError carrying both failures
Fail(first_error, second_error) ==
  [type |-> "ValueError",
   msg |-> "Couldn't get argspec for function, and couldn't parse one from the docstring",
   first |-> first_error.msg,
   second |-> second_error.msg]

\* lines 129-138, the body of the second try
DocstringArgspec(func) ==
  IF ~func.hasdoc
    THEN Raised(Raise("AttributeError", "'NoneType' object has no attribute 'splitlines'"))
  ELSE IF SplitLines(func.doc) = <<>>
    THEN Raised(Raise("IndexError", "list index out of range"))
  ELSE LET cython_signature_line == SplitLines(func.doc)[1]
       IN IF ~Contains(func.name \o <<"(">>, cython_signature_line)
            THEN Raised(Raise("ValueError", "First line of docstring was not a signature"))
            ELSE parse_argspec_from_cython_embedsignature_line(cython_signature_line)

getargspec(func) ==
  IF func.native = "ok" THEN Returned(func.argspec)
  ELSE LET first_error == Raise("TypeError", "arg is not a Python function")
           second == DocstringArgspec(func)
       IN IF second.ok THEN second ELSE Raised(Fail(first_error, second.err))

-----------------------------------------------------------------------------
(* Callables handed to getargspec and preprocess *)

\* func.argspec is the signature the callable really has; func.native tells
\* whether inspect.getargspec can read it ("ok") or raises TypeError, as it
\* does for a compiled callable, which then has only its docstring.
Callable(name, native, spec, hasdoc, doc) ==
  [name |-> name, native |-> native, argspec |-> spec, hasdoc |-> hasdoc, doc |-> doc]

ParamNames == {<<"a">>, <<"b">>, <<"c">>}

\* A Python 2 tuple parameter, which getargspec reports as a nested list;
\* the model writes it as its source text.
TupleArg == <<"(", "x", ",", "y", ")">>
\* isinstance(arg, str)
IsStr(arg) == arg = <<>> \/ arg[1] # "("

\* the default a function of the model gives a parameter of that name, when
\* it gives one: None, the 2 of foo(a, b=2), and a falsy 0
DefaultFor(arg) == IF arg = <<"a">> THEN PyNone ELSE IF arg = <<"b">> THEN 2 ELSE 0
ArgValues == {0, 1}

InjSeqs(S, n) == {s \in [1..n -> S] : \A i, j \in 1..n : i # j => s[i] # s[j]}
Signatures == UNION {InjSeqs(ParamNames, n) : n \in 0..MaxArgs}
\* the defaults tuples a function with these parameters can have
DefaultTuples(args) ==
  {[i \in 1..k |-> DefaultFor(args[Len(args) - k + i])] : k \in 0..Len(args)}

DefName == <<"f">>
LambdaName == <<"<", "l", "a", "m", "b", "d", "a", ">">>

\* functions written with def or lambda, with and without defaults
PlainFunctions ==
  UNION {{Callable(nm, "ok", ArgSpec(args, NoName, NoName, d), FALSE, <<>>) :
            d \in DefaultTuples(args), nm \in {DefName, LambdaName}} :
         args \in Signatures}

\* functions taking *v, **k or both
VariadicFunctions ==
  {Callable(DefName, "ok", ArgSpec(args, v[1], v[2], <<>>), FALSE, <<>>) :
     args \in Signatures,
     v \in {<<<<"v">>, NoName>>, <<NoName, <<"k">>>>, <<<<"v">>, <<"k">>>>}}

\* Python 2 functions whose first parameter is a tuple
TupleFunctions ==
  {Callable(DefName, "ok", ArgSpec(<<TupleArg>> \o args, NoName, NoName, <<>>), FALSE, <<>>) :
     args \in {s \in Signatures : Len(s) < MaxArgs}}

\* compiled callables: reflection fails, the docstring carries the signature
CompiledCallable(spec, doc) == Callable(DefName, "TypeError", spec, TRUE, doc)
CompiledCallables ==
  { CompiledCallable(ArgSpec(<<<<"a">>, <<"b">>>>, NoName, NoName, <<>>),
      <<"f", "(", "t", " ", "a", ",", " ", "b", ")", "\n", "x">>),
    CompiledCallable(ArgSpec(<<<<"a">>>>, NoName, NoName, <<>>),
      <<"f", "(", "a", ")">>),
    CompiledCallable(ArgSpec(<<<<"a">>>>, <<"v">>, NoName, <<>>),
      <<"f", "(", "a", ",", " ", "*", "v", ")">>),
    CompiledCallable(ArgSpec(<<>>, NoName, <<"k">>, <<>>),
      <<"f", "(", "*", "*", "k", ")">>),
    CompiledCallable(ArgSpec(<<<<"a">>>>, NoName, NoName, <<1>>),
      <<"f", "(", "a", "=", "1", ")">>),
    Callable(DefName, "TypeError", ArgSpec(<<<<"a">>>>, NoName, NoName, <<>>), FALSE, <<>>) }

Callables == PlainFunctions \cup VariadicFunctions \cup TupleFunctions \cup CompiledCallables

-----------------------------------------------------------------------------
(* Processors *)

\* call(f) of lines 228-252, for f = lambda x: x + 1 (the example of line 242)
CallInc == [kind |-> "call", body |-> "inc"]
\* a three-argument processor in the manner of _ensure_tuple (lines 161-172):
\* it returns the argument or raises
ExpectNonzero == [kind |-> "processor", body |-> "expect_nonzero"]
NoProcessor == [kind |-> "", body |-> ""]

Processors == {CallInc, ExpectNonzero}
ProcessorMaps == UNION {[S -> Processors] : S \in SUBSET ParamNames}

Event(who, proc, func, argname, value, kwargs) ==
  [who |-> who, proc |-> proc, func |-> func, argname |-> argname, value |-> value,
   kwargs |-> kwargs]

Outcome(ok, value, err, events) ==
  [ok |-> ok, value |-> value, err |-> err, events |-> events]

\* lambda x: x + 1
Inc(arg) ==
  IF arg = PyNone
    THEN Outcome(FALSE, PyNone,
                 Raise("TypeError", "unsupported operand type(s) for +: 'NoneType' and 'int'"),
                 <<>>)
    ELSE Outcome(TRUE, arg + 1, NoError, <<>>)

\* a processor that calls f(arg) a second time on its way out
CallProcessorTwice(proc, func, argname, arg) ==
  LET r == Inc(arg)
  IN Outcome(r.ok, r.value, r.err,
             <<Event("transform", proc, <<>>, <<>>, arg, <<>>),
               Event("transform", proc, <<>>, <<>>, arg, <<>>)>>)

\* the processor call(f) returns: processor(func, argname, arg) = f(arg)
CallProcessor(proc, func, argname, arg) ==
  LET r == Inc(arg)
  IN Outcome(r.ok, r.value, r.err, <<Event("transform", proc, <<>>, <<>>, arg, <<>>)>>)

ExpectNonzeroProcessor(proc, func, argname, arg) ==
  IF arg = 0
    THEN Outcome(FALSE, PyNone, Raise("ValueError", "expected a nonzero argument"), <<>>)
    ELSE Outcome(TRUE, arg, NoError, <<>>)

\* processor(func, argname, arg), recorded as it is entered
ApplyProcessor(proc, func, argname, arg) ==
  LET r == IF proc.kind = "call" THEN CallProcessor(proc, func, argname, arg)
           ELSE ExpectNonzeroProcessor(proc, func, argname, arg)
  IN Outcome(r.ok, r.value, r.err,
             <<Event("processor", proc, func.name, argname, arg, <<>>)>> \o r.events)

-----------------------------------------------------------------------------
(* Python's call semantics for a function with named parameters *)

Param(arg, default) == [arg |-> arg, default |-> default]

\* The parameters of a function as the interpreter holds them: defaults
\* belong to the last len(defaults) parameters.
Parameters(spec) ==
  LET n == Len(spec.args)
      d == Len(spec.defaults)
  IN [i \in 1..n |->
        Param(spec.args[i], IF i > n - d THEN spec.defaults[i - (n - d)] ELSE NO_DEFAULT)]

\* Binding of a call's positional and keyword arguments to params.
BindArguments(params, pos, kw) ==
  LET n == Len(params)
      names == {params[i].arg : i \in 1..n}
      given(i) == i <= Len(pos) \/ params[i].arg \in DOMAIN kw
  IN IF Len(pos) > n
       THEN Outcome(FALSE, <<>>, Raise("TypeError", "too many positional arguments"), <<>>)
     ELSE IF \E k \in DOMAIN kw : k \notin names
       THEN Outcome(FALSE, <<>>, Raise("TypeError", "unexpected keyword argument"), <<>>)
     ELSE IF \E i \in 1..Len(pos) : params[i].arg \in DOMAIN kw
       THEN Outcome(FALSE, <<>>, Raise("TypeError", "multiple values for argument"), <<>>)
     ELSE IF \E i \in 1..n : ~given(i) /\ params[i].default = NO_DEFAULT
       THEN Outcome(FALSE, <<>>, Raise("TypeError", "missing required argument"), <<>>)
     ELSE Outcome(TRUE,
                  [a \in names |->
                     LET i == CHOOSE j \in 1..n : params[j].arg = a
                     IN IF i <= Len(pos) THEN pos[i]
                        ELSE IF a \in DOMAIN kw THEN kw[a]
                        ELSE params[i].default],
                  NoError, <<>>)

NoResult == [func |-> <<>>, args |-> <<>>]

\* func(*pos, **kw): the original callable reports the arguments it was bound to
Invoke(func, pos, kw) ==
  LET b == BindArguments(Parameters(func.argspec), pos, kw)
  IN IF b.ok
       THEN Outcome(TRUE, [func |-> func.name, args |-> b.value], NoError,
                    <<Event("func", NoProcessor, func.name, <<>>, 0, b.value)>>)
       ELSE Outcome(FALSE, NoResult, b.err, <<>>)

-----------------------------------------------------------------------------
(* _build_preprocessed_function *)

\* uuid4().hex: the k-th draw; distinct draws never collide
UUIDs == <<"5f0c", "91ab", "c27e", "e3d0", "07b6", "4a19">>
Uuid4Hex(k) == UUIDs[k]

\* mangle(name) with the k-th uuid
Mangle(name, k) == <<"a", Uuid4Hex(k)>> \o name

\* a template without its %d: every default is stored under one alias
DefaultNameShared(defaults_seen) == <<"a", Uuid4Hex(2), "_">>

\* default_name_template % defaults_seen, the template holding the second uuid
DefaultName(defaults_seen) == <<"a", Uuid4Hex(2), "_", ToString(defaults_seen)>>

ProcessorPrefix == <<"_", "p", "r", "o", "c", "e", "s", "s", "o", "r", "_">>
WrapsName == <<"w", "r", "a", "p", "s">>

\* "{arg} = {processor}({func}, '{arg}', {arg})"
make_processor_assignment(arg, processor_name, mangled_funcname) ==
  [target |-> arg, processor |-> processor_name, func |-> mangled_funcname,
   literal |-> arg, value |-> arg]

\* d[key] = value on a dict
SetItem(d, key, value) == (key :> value) @@ d

\* assignments.insert(0, stmt)
ListPrepend(list, item) == <<item>> \o list

\* assignments.append(stmt), line 295
ListAppend(list, item) == Append(list, item)

NoWrapper ==
  [built |-> FALSE, name |-> <<>>, hasdoc |-> FALSE, doc |-> <<>>, signature |-> <<>>,
   assignments |-> <<>>, wrapped_funcname |-> <<>>, call_args |-> <<>>,
   exec_globals |-> <<>>]

\* One pass of the loop of lines 283-297 over args_defaults[i..]; st holds
\* exec_globals, defaults_seen, signature, call_args, assignments and the
\* number of uuids drawn so far.
RECURSIVE BuildLoop(_, _, _, _, _)
BuildLoop(args_defaults, procs, mangled_funcname, i, st) ==
  IF i > Len(args_defaults) THEN st
  ELSE LET arg == args_defaults[i][1]
           default == args_defaults[i][2]
           default_name == DefaultName(st.defaults_seen)
           procname == Mangle(ProcessorPrefix \o arg, st.uuids + 1)
           hasdefault == default # NO_DEFAULT
           hasproc == arg \in DOMAIN procs
           g1 == IF hasdefault THEN SetItem(st.exec_globals, default_name, default)
                 ELSE st.exec_globals
           g2 == IF hasproc THEN SetItem(g1, procname, procs[arg]) ELSE g1
       IN BuildLoop(args_defaults, procs, mangled_funcname, i + 1,
            [exec_globals |-> g2,
             defaults_seen |-> IF hasdefault THEN st.defaults_seen + 1 ELSE st.defaults_seen,
             signature |-> Append(st.signature,
                             [arg |-> arg,
                              default_name |-> IF hasdefault THEN default_name ELSE NoName]),
             assignments |-> IF hasproc
                               THEN ListAppend(st.assignments,
                                      make_processor_assignment(arg, procname, mangled_funcname))
                               ELSE st.assignments,
             call_args |-> Append(st.call_args, [keyword |-> arg, value |-> arg]),
             uuids |-> IF hasproc THEN st.uuids + 1 ELSE st.uuids])

\* The function the exec of lines 299-321 creates, or the SyntaxError of
\* compile() when func.__name__ cannot follow "def".  @wraps gives it the
\* name and docstring of func; the co_firstlineno copied at lines 323-347
\* changes tracebacks only and is left out.
build_preprocessed_function(func, procs, args_defaults) ==
  LET mangled_funcname == Mangle(func.name, 1)
      st == BuildLoop(args_defaults, procs, mangled_funcname, 1,
              [exec_globals |-> SetItem(WrapsName :> "functools.wraps", mangled_funcname, func),
               defaults_seen |-> 0, signature |-> <<>>, assignments |-> <<>>,
               call_args |-> <<>>, uuids |-> 2])
  IN IF ~IsIdentifier(func.name)
       THEN Outcome(FALSE, NoWrapper, Raise("SyntaxError", "invalid syntax"), <<>>)
       ELSE Outcome(TRUE,
              [built |-> TRUE, name |-> func.name, hasdoc |-> func.hasdoc, doc |-> func.doc,
               signature |-> st.signature, assignments |-> st.assignments,
               wrapped_funcname |-> mangled_funcname, call_args |-> st.call_args,
               exec_globals |-> st.exec_globals],
              NoError, <<>>)

\* The parameters the generated def statement declares: a default is the
\* value its alias has in exec_globals when the def is executed.
WrapperParameters(w) ==
  [i \in 1..Len(w.signature) |->
     Param(w.signature[i].arg,
           IF w.signature[i].default_name = NoName THEN NO_DEFAULT
           ELSE w.exec_globals[w.signature[i].default_name])]

\* getargspec of the generated function
WrapperArgSpec(w) ==
  LET with == {i \in 1..Len(w.signature) : w.signature[i].default_name # NoName}
      first == IF with = {} THEN Len(w.signature) + 1 ELSE SetMin(with)
  IN ArgSpec([i \in 1..Len(w.signature) |-> w.signature[i].arg], NoName, NoName,
             [k \in 1..(Len(w.signature) + 1 - first) |->
                w.exec_globals[w.signature[first + k - 1].default_name]])

-----------------------------------------------------------------------------
(* The decorator returned by preprocess *)

\* zip(args, defaults + no_defaults): the defaults given to the first parameters
ArgsDefaultsLeading(args, defaults) ==
  LET no_defaults == [i \in 1..(Len(args) - Len(defaults)) |-> NO_DEFAULT]
      padded == defaults \o no_defaults
  IN [i \in 1..Len(args) |-> <<args[i], padded[i]>>]

\* zip(args, no_defaults + defaults)
ArgsDefaults(args, defaults) ==
  LET no_defaults == [i \in 1..(Len(args) - Len(defaults)) |-> NO_DEFAULT]
      padded == no_defaults \o defaults
  IN [i \in 1..Len(args) |-> <<args[i], padded[i]>>]

\* a test that never fires
NeverTruthy(name) == FALSE

\* "if varargs:" and "if varkw:", the truth value of a name or None
Truthy(name) == name # NoName

\* a check that finds no unknown name
NoBadNames(procs, argset) == {}

\* viewkeys(processors) - argset
BadNames(procs, argset) == DOMAIN procs \ argset

\* _decorator(f), given the outcome of getargspec(f)
decorator(func, procs, extracted) ==
  IF ~extracted.ok THEN Outcome(FALSE, NoWrapper, extracted.err, <<>>)
  ELSE LET args == extracted.spec.args
           varargs == extracted.spec.varargs
           varkw == extracted.spec.keywords
           defaults == extracted.spec.defaults
           args_defaults == ArgsDefaults(args, defaults)
       IN IF \E i \in DOMAIN args : ~IsStr(args[i])
            \* set(args) at line 197 cannot hash a nested list
            THEN Outcome(FALSE, NoWrapper, Raise("TypeError", "unhashable type: 'list'"), <<>>)
          ELSE LET argset == {args[i] : i \in DOMAIN args}
                   bad_names == BadNames(procs, argset)
               IN IF Truthy(varargs)
                    THEN Outcome(FALSE, NoWrapper,
                           Raise("TypeError", "Can't validate functions that take *args"), <<>>)
                  ELSE IF Truthy(varkw)
                    THEN Outcome(FALSE, NoWrapper,
                           Raise("TypeError", "Can't validate functions that take **kwargs"), <<>>)
                  ELSE IF \E i \in DOMAIN args : ~IsStr(args[i])
                    THEN Outcome(FALSE, NoWrapper,
                           Raise("TypeError", "Can't validate functions using tuple unpacking"),
                           <<>>)
                  ELSE IF bad_names # {}
                    THEN Outcome(FALSE, NoWrapper,
                           Raise("TypeError", "Got processors for unknown arguments"), <<>>)
                  ELSE build_preprocessed_function(func, procs, args_defaults)

-----------------------------------------------------------------------------
(* Decoration and calls of the wrapper *)

NoCall == [pos |-> <<>>, kw |-> <<>>]
NoExtraction == Raised(NoError)

PositionalArgs == UNION {[1..k -> ArgValues] : k \in 0..MaxArgs}
KeywordArgs == UNION {[S -> ArgValues] : S \in SUBSET ParamNames}

\* preprocess(**processors) has returned _decorator: it was given no
\* positional argument (lines 187-188) and f is about to be decorated.
Init ==
  /\ f \in Callables
  /\ processors \in ProcessorMaps
  /\ pc = "start"
  /\ wrapper = NoWrapper
  /\ error = NoError
  /\ argspec = NoExtraction
  /\ call = NoCall
  /\ locals = <<>>
  /\ ip = 0
  /\ trace = <<>>
  /\ result = NoResult

\* preprocess(**processors)(f): lines 190-224
Decorate ==
  /\ pc = "start"
  /\ LET extracted == getargspec(f)
         built == decorator(f, processors, extracted)
     IN /\ argspec' = extracted
        /\ wrapper' = built.value
        /\ error' = built.err
        /\ pc' = IF built.ok THEN "decorated" ELSE "failed"
  /\ UNCHANGED <<f, processors, call, locals, ip, trace, result>>

\* wrapper(*pos, **kw): the interpreter binds the arguments to the
\* parameters of the generated def, or raises TypeError
CallWrapper(pos, kw) ==
  /\ pc = "decorated"
  /\ LET bound == BindArguments(WrapperParameters(wrapper), pos, kw)
     IN /\ call' = [pos |-> pos, kw |-> kw]
        /\ trace' = <<>>
        /\ result' = NoResult
        /\ ip' = 1
        /\ locals' = bound.value
        /\ error' = bound.err
        /\ pc' = IF bound.ok THEN "calling" ELSE "raised"
  /\ UNCHANGED <<f, processors, wrapper, argspec>>

\* a body that wraps each assignment in try/except and carries on
RunAssignmentSuppressing ==
  /\ pc = "calling"
  /\ ip <= Len(wrapper.assignments)
  /\ LET stmt == wrapper.assignments[ip]
         r == ApplyProcessor(wrapper.exec_globals[stmt.processor],
                             wrapper.exec_globals[stmt.func],
                             stmt.literal, locals[stmt.value])
     IN /\ trace' = trace \o r.events
        /\ locals' = IF r.ok THEN [locals EXCEPT ![stmt.target] = r.value] ELSE locals
        /\ ip' = ip + 1
        /\ UNCHANGED <<pc, error>>
  /\ UNCHANGED <<f, processors, wrapper, argspec, call, result>>

\* the ip-th line of {assignments} in the generated body
RunAssignment ==
  /\ pc = "calling"
  /\ ip <= Len(wrapper.assignments)
  /\ LET stmt == wrapper.assignments[ip]
         r == ApplyProcessor(wrapper.exec_globals[stmt.processor],
                             wrapper.exec_globals[stmt.func],
                             stmt.literal, locals[stmt.value])
     IN /\ trace' = trace \o r.events
        /\ IF r.ok
             THEN /\ locals' = [locals EXCEPT ![stmt.target] = r.value]
                  /\ ip' = ip + 1
                  /\ UNCHANGED <<pc, error>>
             ELSE /\ pc' = "raised"
                  /\ error' = r.err
                  /\ UNCHANGED <<locals, ip>>
  /\ UNCHANGED <<f, processors, wrapper, argspec, call, result>>

\* "return {wrapped_funcname}({call_args})"
ReturnCall ==
  /\ pc = "calling"
  /\ ip > Len(wrapper.assignments)
  /\ LET kwargs == [k \in {wrapper.call_args[i].keyword : i \in DOMAIN wrapper.call_args} |->
                      locals[wrapper.call_args[CHOOSE i \in DOMAIN wrapper.call_args :
                                                 wrapper.call_args[i].keyword = k].value]]
         r == Invoke(wrapper.exec_globals[wrapper.wrapped_funcname], <<>>, kwargs)
     IN /\ trace' = trace \o r.events
        /\ result' = r.value
        /\ error' = r.err
        /\ pc' = IF r.ok THEN "returned" ELSE "raised"
  /\ UNCHANGED <<f, processors, wrapper, argspec, call, locals, ip>>

\* The call is over: its frame is gone and the wrapper, which holds no
\* state of its own, can be called again.
Finish ==
  /\ pc \in {"returned", "raised"}
  /\ pc' = "decorated"
  /\ call' = NoCall
  /\ locals' = <<>>
  /\ ip' = 0
  /\ trace' = <<>>
  /\ result' = NoResult
  /\ error' = NoError
  /\ UNCHANGED <<f, processors, wrapper, argspec>>

Next ==
  \/ Decorate
  \/ \E pos \in PositionalArgs, kw \in KeywordArgs : CallWrapper(pos, kw)
  \/ RunAssignment
  \/ ReturnCall
  \/ Finish

Spec == Init /\ [][Next]_vars

-----------------------------------------------------------------------------
(* getargspec on its own, over docstring signature lines *)

Heads == {<<>>, <<"f">>, <<"f", "f">>, <<"g">>, <<"1", "f">>, <<"g", " ", "f">>}
Entries ==
  { <<>>, <<"x">>, <<"y">>, <<"t", " ", "x">>, <<" ", "t", " ", " ", "y", " ">>,
    <<"t", " ", "t", " ", "x">>, <<"x", "=", "1">>, <<"*", "x">>, <<"*", "*", "y">>,
    <<"t", " ", "*", "y">>, <<"(", "x">> }
EntryLists == UNION {[1..k -> Entries] : k \in 0..MaxEntries}

SignatureLines ==
  {head \o open \o Join(entries, <<",">>) \o close \o trail :
     head \in Heads, open \in {<<>>, <<"(">>}, entries \in EntryLists,
     close \in {<<>>, <<")">>}, trail \in {<<>>, <<"x">>}}

Docstrings == SignatureLines \cup {line \o <<"\n", "x">> : line \in SignatureLines}

ExtractCallables ==
  {Callable(DefName, "TypeError", NoArgSpec, TRUE, doc) : doc \in Docstrings}
  \cup {Callable(DefName, "TypeError", NoArgSpec, FALSE, <<>>)}
  \cup PlainFunctions

InitExtract ==
  /\ f \in ExtractCallables
  /\ processors = <<>>
  /\ pc = "start"
  /\ wrapper = NoWrapper
  /\ error = NoError
  /\ argspec = NoExtraction
  /\ call = NoCall
  /\ locals = <<>>
  /\ ip = 0
  /\ trace = <<>>
  /\ result = NoResult

\* getargspec(f): lines 105-140
Extract ==
  /\ pc = "start"
  /\ argspec' = getargspec(f)
  /\ pc' = "extracted"
  /\ UNCHANGED <<f, processors, wrapper, error, call, locals, ip, trace, result>>

NextExtract == Extract

SpecExtract == InitExtract /\ [][NextExtract]_vars

-----------------------------------------------------------------------------
(* Properties of getargspec, checked under SpecExtract *)

\* getargspec has returned a signature it read from the docstring
ViaDocstring == pc = "extracted" /\ f.native = "TypeError" /\ argspec.ok

\* the first line of the docstring, where there is one
HasFirstLine == f.hasdoc /\ SplitLines(f.doc) # <<>>
FirstLine == SplitLines(f.doc)[1]

\* the words of an entry of the argument list, read off the text itself
WordStarts(entry) ==
  {i \in DOMAIN entry : entry[i] # " " /\ (i = 1 \/ entry[i - 1] = " ")}
WordCount(entry) == Cardinality(WordStarts(entry))
LastWord(entry) ==
  LET start == SetMax(WordStarts(entry))
      stop == SetMax({i \in DOMAIN entry : entry[i] # " "})
  IN SubSeq(entry, start, stop)

\* the entries between the parentheses that hold at least one word
WrittenEntries == SelectSeq(Split(SignatureGroups(FirstLine).cy_sig, ","), LAMBDA e : WordCount(e) > 0)
LastWords == [i \in DOMAIN WrittenEntries |-> LastWord(WrittenEntries[i])]

\* C5: a signature comes out of the docstring fallback only if the
\* identifier matched before the opening parenthesis of the first line is
\* the callable's own name.
C5_MatchedNameIsDeclaredName ==
  ViaDocstring => SignatureGroups(FirstLine).funcname = f.name

\* C6 as stated: whenever the fallback succeeds, the parameter names are the
\* last words of the entries, in order, and the signature has no *args, no
\* **kwargs and no defaults.
C6_NamesAreLastWordsNoVariadics ==
  ViaDocstring =>
    /\ argspec.spec.args = LastWords
    /\ argspec.spec.varargs = NoName
    /\ argspec.spec.keywords = NoName
    /\ argspec.spec.defaults = <<>>

\* C6 amended: whenever the fallback succeeds the signature has no defaults;
\* when every last word is a plain identifier the parameter names are those
\* words, in order, and there is no *args and no **kwargs; a last word
\* written *name or **name is returned as the *args or **kwargs parameter.
C6_NamesAreLastWordsOfPlainEntries ==
  ViaDocstring =>
    /\ argspec.spec.defaults = <<>>
    /\ (\A i \in DOMAIN LastWords : IsIdentifier(LastWords[i])) =>
         /\ argspec.spec.args = LastWords
         /\ argspec.spec.varargs = NoName
         /\ argspec.spec.keywords = NoName
    /\ \A i \in DOMAIN LastWords :
         /\ IsStarred(LastWords[i]) => argspec.spec.varargs = Tail(LastWords[i])
         /\ IsDoubleStarred(LastWords[i]) => argspec.spec.keywords = Tail(Tail(LastWords[i]))

\* a fallback that read two names, one of them behind a type
C6_Witness ==
  /\ ViaDocstring
  /\ Len(argspec.spec.args) = 2
  /\ argspec.spec.varargs = NoName
  /\ \E i \in DOMAIN WrittenEntries : WordCount(WrittenEntries[i]) = 2

\* the second failure getargspec must report for this callable, "" if none
FallbackFailure ==
  IF ~f.hasdoc THEN "'NoneType' object has no attribute 'splitlines'"
  ELSE IF SplitLines(f.doc) = <<>> THEN "list index out of range"
  ELSE IF ~Contains(f.name \o <<"(">>, FirstLine)
    THEN "First line of docstring was not a signature"
  ELSE IF ~SignatureMatches(FirstLine) THEN "Can't parse signature line"
  ELSE IF \E i \in DOMAIN SignatureGroups(FirstLine).cy_sig :
            SignatureGroups(FirstLine).cy_sig[i] = "="
    THEN "Can't parse signatures containing default values"
  ELSE IF \E i \in DOMAIN WrittenEntries : WordCount(WrittenEntries[i]) > 2
    THEN "Couldn't parse argument name"
  ELSE ""

\* C7: when reflection raises TypeError and the fallback yields no
\* signature (no docstring, an empty one, a first line that is no
\* identifier(argList), an entry of more than two words, an "=" in the
\* argument list), getargspec raises the one ValueError that carries both
\* failures, and returns no signature.
C7_ExtractionErrorCarriesBoth ==
  (pc = "extracted" /\ f.native = "TypeError") =>
    /\ FallbackFailure # "" =>
         /\ ~argspec.ok
         /\ argspec.err.second = FallbackFailure
    /\ ~argspec.ok =>
         /\ argspec.spec = NoArgSpec
         /\ argspec.err.type = "ValueError"
         /\ argspec.err.first = "arg is not a Python function"
         /\ argspec.err.second # ""

\* the line names the callable and matches, and fails on a default value
C7_Witness ==
  /\ pc = "extracted"
  /\ f.native = "TypeError"
  /\ HasFirstLine
  /\ FallbackFailure = "Can't parse signatures containing default values"
  /\ argspec.err.type = "ValueError"

-----------------------------------------------------------------------------
(* Properties of the decorator and of the wrapper's calls, checked under Spec *)

\* how the original callable itself binds the arguments of the current call
DirectBinding == BindArguments(Parameters(f.argspec), call.pos, call.kw)

Events(who) == SelectSeq(trace, LAMBDA e : e.who = who)

\* the parameters that have a processor, in the order the signature declares them
ProcessedParams == SelectSeq(argspec.spec.args, LAMBDA a : a \in DOMAIN processors)

NoVariadics == f.argspec.varargs = NoName /\ f.argspec.keywords = NoName

\* what decorating with no processors must give: a wrapper that declares
\* the parameters of f and returns what f returns
SameSignatureSameResults ==
  /\ pc # "failed"
  /\ wrapper.built
  /\ WrapperArgSpec(wrapper) = f.argspec
  /\ (pc \in {"returned", "raised"} /\ Invoke(f, call.pos, call.kw).ok) =>
       /\ pc = "returned"
       /\ result = Invoke(f, call.pos, call.kw).value

\* C1 as stated: for any reflectable function without variadic parameters,
\* preprocess() with no processors yields a wrapper with the same parameter
\* names, order and defaults, which returns what f returns for every valid
\* argument combination.
C1_AnyFunctionWithoutVariadics ==
  (pc # "start" /\ f.native = "ok" /\ DOMAIN processors = {} /\ NoVariadics)
    => SameSignatureSameResults

\* C1 amended: the same, for a function whose name is an identifier (a def,
\* not a lambda) and whose parameters are all plain names (no Python 2
\* tuple parameter).
C1_NamedFunctionWithPlainParameters ==
  (/\ pc # "start" /\ f.native = "ok" /\ DOMAIN processors = {} /\ NoVariadics
   /\ IsIdentifier(f.name)
   /\ \A i \in DOMAIN f.argspec.args : IsStr(f.argspec.args[i]))
    => SameSignatureSameResults

\* a call that leaves out the defaulted second argument has returned
C1_Witness ==
  /\ pc = "returned"
  /\ f.native = "ok"
  /\ DOMAIN processors = {}
  /\ Len(f.argspec.args) = 2
  /\ Len(f.argspec.defaults) = 1
  /\ Len(call.pos) = 1
  /\ DOMAIN call.kw = {}

\* C2: with preprocess(p=call(transform)), every call of the wrapper whose
\* arguments bind invokes transform exactly once, on the value bound to p,
\* before f starts, and f receives transform's result as p.
C2_TransformOnceBeforeFunction ==
  \A p \in ParamNames :
    (wrapper.built /\ DOMAIN processors = {p} /\ processors[p].kind = "call") =>
      LET transforms == Events("transform")
          funcs == Events("func")
      IN /\ Len(transforms) <= 1
         /\ pc = "calling" => (Len(funcs) = 0 /\ Len(transforms) = ip - 1)
         /\ (pc = "raised" /\ trace # <<>>) => (Len(funcs) = 0 /\ Len(transforms) = 1)
         /\ pc = "returned" =>
              /\ Len(transforms) = 1
              /\ Len(funcs) = 1
              /\ trace[Len(trace)].who = "func"
              /\ funcs[1].kwargs[p] = Inc(transforms[1].value).value
         /\ \A i \in DOMAIN transforms : transforms[i].value = DirectBinding.value[p]

C2_Witness ==
  /\ pc = "returned"
  /\ \E p \in ParamNames : DOMAIN processors = {p} /\ processors[p].kind = "call"
  /\ Len(Events("transform")) = 1
  /\ Len(f.argspec.args) = 2

\* C3: when some key of processors is not a parameter of f, decoration
\* raises TypeError, no wrapper exists, and neither f nor a processor runs.
C3_UnknownProcessorNamesRejected ==
  (/\ pc # "start"
   /\ argspec.ok
   /\ \E k \in DOMAIN processors : k \notin {argspec.spec.args[i] : i \in DOMAIN argspec.spec.args})
    => /\ pc = "failed"
       /\ error.type = "TypeError"
       /\ ~wrapper.built
       /\ trace = <<>>
       /\ result = NoResult

C3_Witness ==
  /\ pc = "failed"
  /\ error.msg = "Got processors for unknown arguments"
  /\ Len(argspec.spec.args) = 2
  /\ Cardinality(DOMAIN processors) = 2

\* C4: a function whose signature has *args or **kwargs is refused with
\* TypeError and gets no wrapper, whatever the processors, none included.
C4_VariadicFunctionsRejected ==
  (/\ pc # "start"
   /\ argspec.ok
   /\ (argspec.spec.varargs # NoName \/ argspec.spec.keywords # NoName))
    => /\ pc = "failed"
       /\ error.type = "TypeError"
       /\ ~wrapper.built

C4_Witness ==
  /\ pc = "failed"
  /\ DOMAIN processors = {}
  /\ argspec.spec.varargs = NoName
  /\ argspec.spec.keywords # NoName
  /\ error.msg = "Can't validate functions that take **kwargs"

\* the value f receives for parameter p when the call binds it to v
Processed(p, v) ==
  IF p \in DOMAIN processors THEN ApplyProcessor(processors[p], f, p, v).value ELSE v

\* C8: the wrapper binds the arguments as f does, a left-out argument to
\* f's default for that same parameter and a left-out argument without
\* default to nothing (the call raises); f then receives, for every
\* parameter, the bound value put through the parameter's processor if it
\* has one.
C8_DefaultsBoundThenProcessed ==
  wrapper.built =>
    /\ (pc = "calling" /\ ip = 1) => (DirectBinding.ok /\ locals = DirectBinding.value)
    /\ (pc = "raised" /\ trace = <<>>) => ~DirectBinding.ok
    /\ pc = "returned" =>
         result = Invoke(f, <<>>, [p \in DOMAIN DirectBinding.value |->
                                    Processed(p, DirectBinding.value[p])]).value

\* foo(a, b=2) with v -> v + 1 on a: wrapped(1) is foo(2, 2)
C8_Witness ==
  /\ pc = "returned"
  /\ f.argspec.args = << <<"a">>, <<"b">> >>
  /\ f.argspec.defaults = <<2>>
  /\ DOMAIN processors = {<<"a">>}
  /\ processors[<<"a">>] = CallInc
  /\ call.pos = <<1>>
  /\ DOMAIN call.kw = {}
  /\ result.args[<<"a">>] = 2
  /\ result.args[<<"b">>] = 2

\* C9: the processors run in the order the signature declares their
\* parameters, each at most once, each on (f, its parameter's name, its
\* parameter's value), and all before f, which runs once and last.
C9_ProcessorsInDeclaredOrder ==
  wrapper.built =>
    LET ran == Events("processor")
        funcs == Events("func")
    IN /\ Len(ran) <= Len(ProcessedParams)
       /\ \A i \in DOMAIN ran :
            /\ ran[i].argname = ProcessedParams[i]
            /\ ran[i].proc = processors[ProcessedParams[i]]
            /\ ran[i].func = f.name
            /\ ran[i].value = DirectBinding.value[ProcessedParams[i]]
       /\ Len(funcs) <= 1
       /\ pc = "returned" => Len(funcs) = 1
       /\ Len(funcs) = 1 =>
            /\ pc = "returned"
            /\ trace[Len(trace)].who = "func"
            /\ Len(ran) = Len(ProcessedParams)

\* f(b, a) called with a and b by keyword: b's processor ran before a's
C9_Witness ==
  /\ pc = "returned"
  /\ f.argspec.args = << <<"b">>, <<"a">> >>
  /\ DOMAIN processors = {<<"a">>, <<"b">>}
  /\ DOMAIN call.kw = {<<"a">>, <<"b">>}
  /\ Len(Events("processor")) = 2
  /\ Events("processor")[1].argname = <<"b">>

\* C10: when a processor raises, the caller gets that very exception, the
\* processor is not run again, no later processor runs and f is not called.
C10_ProcessorFailurePropagates ==
  \A i \in DOMAIN trace :
    (/\ trace[i].who = "processor"
     /\ ~ApplyProcessor(trace[i].proc, f, trace[i].argname, trace[i].value).ok) =>
      /\ pc = "raised"
      /\ error = ApplyProcessor(trace[i].proc, f, trace[i].argname, trace[i].value).err
      /\ result = NoResult
      /\ \A j \in DOMAIN trace :
           /\ j > i => trace[j].who = "transform"
           /\ (j # i /\ trace[j].who = "processor") => trace[j].argname # trace[i].argname

\* the first of two processors raised and the second never ran
C10_Witness ==
  /\ pc = "raised"
  /\ Len(ProcessedParams) = 2
  /\ Len(Events("processor")) = 1
  /\ error.type = "ValueError"

====
